---------------------------- MODULE Spec2Model ----------------------------
(***************************************************************************)
(* A model of py-syncrony: the etcd store client (syncrony/etcd.py) and    *)
(* the leader election built on it (syncrony/election.py).                 *)
(*                                                                         *)
(* The specifications that share the module:                               *)
(*   SpecClient  Client.set / Client.request: argument handling and the    *)
(*               endpoint fail-over and retry loop;                        *)
(*   SpecWatch   Client.get / Client.watch_iter against the store;         *)
(*   Spec        Election participants racing for one lock path;           *)
(*   SpecRun     one Election whose run() is called at any time, while     *)
(*               other clients write and delete the lock key;              *)
(*   SpecRace    the participants of Spec, with other clients writing and  *)
(*               deleting the lock key.                                    *)
(***************************************************************************)
EXTENDS Integers, Sequences, FiniteSets, TLC

VARIABLES
    \* ---- Client.request / Client.set (SpecClient) ----
    up,         \* up[s]: endpoint s accepts connections right now
    call,       \* the Client.set call being made and how it ended
    rq,         \* the Client.request activation: position in the loops
    \* ---- the store (SpecWatch, Spec) ----
    store,      \* the key, the store's index and the key's change history
    \* ---- Client.watch_iter (SpecWatch) ----
    wt,         \* the generator returned by watch_iter and its consumer
    \* ---- Election (Spec) ----
    green,      \* whether blocking calls (requests, time.sleep) yield to the hub
    is_leader,  \* is_leader[p]: Election.is_leader of participant p
    watchdog,   \* watchdog[p]: Election._watchdog and the timer behind it
    tasks,      \* tasks[p]: the green threads run() spawned, in spawn order
    obs         \* obs[p]: what has been observed of p (history, not program state)

clientVars == <<up, call, rq>>
storeVars == <<store>>
watchVars == <<wt>>
electionVars == <<green, is_leader, watchdog, tasks, obs>>
vars == <<up, call, rq, store, wt, green, is_leader, watchdog, tasks, obs>>

-----------------------------------------------------------------------------
(* Python values.  A value carries its type tag; i holds a bool or an int,  *)
(* s holds a str.                                                           *)

PyNone == [t |-> "none", i |-> 0, s |-> ""]
PyBool(b) == [t |-> "bool", i |-> IF b THEN 1 ELSE 0, s |-> ""]
PyInt(n) == [t |-> "int", i |-> n, s |-> ""]
PyStr(x) == [t |-> "str", i |-> 0, s |-> x]

PyTrue == PyBool(TRUE)
PyFalse == PyBool(FALSE)

\* Python's ==: bool is a subclass of int, so True == 1 and False == 0.
PyEq(a, b) ==
    IF a.t \in {"bool", "int"} /\ b.t \in {"bool", "int"} THEN a.i = b.i
    ELSE a.t = b.t /\ a.i = b.i /\ a.s = b.s

\* Python's `x in (True, False)`: membership in a tuple compares with ==.
InTrueFalse(x) == PyEq(x, PyTrue) \/ PyEq(x, PyFalse)

\* Python's truth value of x, for the values that are converted.
Truthy(x) ==
    CASE x.t \in {"bool", "int"} -> x.i # 0
      [] x.t = "str" -> x.s # ""
      [] OTHER -> FALSE

\* A dict as a function from its keys; d with key k set to v.
EmptyDict == [k \in {} |-> PyNone]
DictSet(d, k, v) == [x \in (DOMAIN d) \cup {k} |-> IF x = k THEN v ELSE d[x]]


-----------------------------------------------------------------------------
(* Client.set (etcd.py 83-112): the query parameters and the HTTP method,   *)
(* or the TypeError raised before any request is made.                      *)

\* etcd.py 92-93
SetTtlParams(ttl) ==
    IF ttl # PyNone THEN DictSet(EmptyDict, "ttl", ttl) ELSE EmptyDict

\* etcd.py 95-100.  basestring is Python 2's str/unicode.
SetPrevParams(params, prev_value) ==
    IF InTrueFalse(prev_value) THEN DictSet(params, "prevExist", prev_value)
    ELSE IF prev_value.t = "str" THEN DictSet(params, "prevValue", prev_value)
    ELSE IF prev_value # PyNone THEN DictSet(params, "prevIndex", prev_value)
    ELSE params

\* A mutant of SetRequest: the delete checks are missing.
SetRequestUnchecked(value, params, ttl) ==
    IF value = PyNone
    THEN [method |-> "DELETE", params |-> params, raises |-> ""]
    ELSE [method |-> "PUT",
          params |-> DictSet(params, "value", value),
          raises |-> ""]

\* etcd.py 102-110.  raises = "" when set goes on to self.request(...).
SetRequest(value, params, ttl) ==
    IF value = PyNone
    THEN [method |-> "DELETE",
          params |-> params,
          raises |-> IF ttl # PyNone THEN "TypeError"
                     ELSE IF "prevExist" \in DOMAIN params THEN "TypeError"
                     ELSE ""]
    ELSE [method |-> "PUT",
          params |-> DictSet(params, "value", value),
          raises |-> ""]

\* Client.set up to its call of self.request (etcd.py 83-112).
ClientSet(value, prev_value, ttl) ==
    SetRequest(value, SetPrevParams(SetTtlParams(ttl), prev_value), ttl)

\* Client.get up to its call of self.request (etcd.py 71-81), recursive and
\* sorted left at their defaults.
ClientGet(wait) ==
    LET params == DictSet(DictSet(DictSet(EmptyDict,
                      "recursive", PyFalse), "sorted", PyFalse), "wait", wait)
    IN  [method |-> "GET",
         params |-> IF ~InTrueFalse(wait)
                    THEN DictSet(DictSet(params, "waitIndex", PyInt(wait.i)),
                                 "wait", PyTrue)
                    ELSE params,
         raises |-> ""]

\* Client.request, etcd.py 38-43: every parameter v with `v in (True, False)`
\* is sent as the token 'true' or 'false'.
WireParams(params) ==
    [k \in DOMAIN params |->
        IF InTrueFalse(params[k])
        THEN PyStr(IF Truthy(params[k]) THEN "true" ELSE "false")
        ELSE params[k]]

-----------------------------------------------------------------------------
(* The state of the store, of a watch_iter generator and of an Election     *)
(* before anything has run.                                                 *)

\* Election.ttl and Election.interval (election.py 22-23, 52-53), in units of
\* five seconds: the defaults 15 and 5.
self_ttl == 3
self_interval == 1

\* The participants, named by their identifiers (election.py 54).
Participants == {"a", "b"}

NoNode == [exists |-> FALSE, value |-> "", modifiedIndex |-> 0, ttl |-> -1]
EmptyStore == [node |-> NoNode, index |-> 0, history |-> <<>>]

NoReply == [ok |-> TRUE, errorCode |-> 0, action |-> "", modifiedIndex |-> 0,
            value |-> ""]

\* A green thread running Election._run, or a consumer of watch_iter.
\*   pc        where it is suspended
\*   index     watch_iter's local `index` (etcd.py 131, 135)
\*   waiting   the GET in flight waits at the store for a change
\*   from      the first index that GET is answered from
\*   resp      the store's reply to the request in flight
\*   yielded   modifiedIndex of the event watch_iter last yielded
\*   sleepLeft time left of eventlet.sleep(self.interval)
\*   reqAge    time the renewal request in flight has taken so far,
\*             saturating at ttl
NewTask == [pc |-> "spawned", index |-> PyFalse, waiting |-> FALSE, from |-> 0,
            resp |-> NoReply, yielded |-> 0, sleepLeft |-> 0, reqAge |-> 0]

NoWatch == [task |-> [NewTask EXCEPT !.pc = "idle"], got |-> <<>>,
            absentAtStart |-> FALSE]

\* Election._watchdog: None, a timer not yet run (pending, `left` to go), or
\* the finished green thread of a timer that ran (fired).
NoWatchdog == [state |-> "none", left |-> 0]

\* age: time since p's last write was confirmed, saturating at ttl + 1;
\* cancelled: cancel() has been called on p.
NoObs == [confirmed |-> FALSE, age |-> 0, cancelled |-> FALSE]

-----------------------------------------------------------------------------
(* Client.request (etcd.py 31-69): the endpoint loop and the retry loop.    *)

NumServers == 2         \* len(self.servers)
MaxRounds == 2          \* the count of failed rounds saturates here
MaxAttempts == 4        \* the count of requests.request calls saturates here

CONNECT_RETRY_INTERVAL == 5
CONNECT_RETRY_RANDOM_FACTOR_PERMILLE == 200

Servers == 1..NumServers

\* What a reachable endpoint answers: a 2xx JSON body without errorCode, an
\* HTTP error status, or a 2xx JSON body holding errorCode.
Replies == {"ok", "http_error", "error_code"}

\* random.random(), in thousandths.
RandomPermille == {0, 500, 999}

\* etcd.py 65-67, in milliseconds:
\* interval += interval * (random * factor*2 - factor)
RetryIntervalMs(r) ==
    CONNECT_RETRY_INTERVAL * 1000
    + (CONNECT_RETRY_INTERVAL
         * (r * CONNECT_RETRY_RANDOM_FACTOR_PERMILLE * 2
            - CONNECT_RETRY_RANDOM_FACTOR_PERMILLE * 1000)) \div 1000

Sat(n, max) == IF n < max THEN n + 1 ELSE max

NoCall == [made |-> FALSE, value |-> PyNone, prev_value |-> PyNone,
           ttl |-> PyNone, raised |-> ""]

IdleRequest == [pc |-> "idle", method |-> "", params |-> EmptyDict,
                srv |-> 1, tried |-> <<>>, rounds |-> 0, attempts |-> 0,
                intervalMs |-> 0, result |-> [server |-> 0, reply |-> ""],
                netChanged |-> FALSE]

\* etcd.py 45-46: entering `while True` and the first `for server in ...`.
StartRequest(req) ==
    [IdleRequest EXCEPT !.pc = "for", !.method = req.method,
                        !.params = WireParams(req.params)]

\* The arguments the caller may pass to set.
SetValues == {PyNone, PyStr("id")}
SetPrevValues == {PyNone, PyTrue, PyFalse, PyStr("id"), PyInt(0), PyInt(1), PyInt(7)}
SetTtls == {PyNone, PyInt(15)}

\* A caller invokes conn.set(path, value, prev_value, ttl).
CallSet ==
    /\ ~call.made
    /\ \E value \in SetValues, prev_value \in SetPrevValues, ttl \in SetTtls :
         LET req == ClientSet(value, prev_value, ttl) IN
         /\ call' = [made |-> TRUE, value |-> value, prev_value |-> prev_value,
                     ttl |-> ttl, raised |-> req.raises]
         /\ rq' = IF req.raises = "" THEN StartRequest(req) ELSE rq
    /\ UNCHANGED <<up, storeVars, watchVars, electionVars>>

\* A mutant of ConnectFails: the connection error reaches the caller.
ConnectFailsSurfaced ==
    /\ rq.pc = "for"
    /\ rq.srv <= NumServers
    /\ ~up[rq.srv]
    /\ rq' = [rq EXCEPT !.pc = "raised",
                        !.tried = Append(@, [server |-> rq.srv,
                                             outcome |-> "ConnectionError"]),
                        !.attempts = Sat(@, MaxAttempts)]
    /\ UNCHANGED <<up, call, storeVars, watchVars, electionVars>>

\* etcd.py 51-55: requests.request raises ConnectionError; `continue`.
ConnectFails ==
    /\ rq.pc = "for"
    /\ rq.srv <= NumServers
    /\ ~up[rq.srv]
    /\ rq' = [rq EXCEPT !.srv = @ + 1,
                        !.tried = Append(@, [server |-> rq.srv,
                                             outcome |-> "ConnectionError"]),
                        !.attempts = Sat(@, MaxAttempts)]
    /\ UNCHANGED <<up, call, storeVars, watchVars, electionVars>>

\* A mutant of Responds: an error answer is treated as a connection error
\* and the next endpoint is tried.
RespondsErrorTriesNext ==
    /\ rq.pc = "for"
    /\ rq.srv <= NumServers
    /\ up[rq.srv]
    /\ \E reply \in Replies :
         rq' = IF reply = "ok"
               THEN [rq EXCEPT !.pc = "returned",
                               !.tried = Append(@, [server |-> rq.srv,
                                                    outcome |-> reply]),
                               !.attempts = Sat(@, MaxAttempts),
                               !.result = [server |-> rq.srv, reply |-> reply]]
               ELSE [rq EXCEPT !.srv = @ + 1,
                               !.tried = Append(@, [server |-> rq.srv,
                                                    outcome |-> reply]),
                               !.attempts = Sat(@, MaxAttempts)]
    /\ UNCHANGED <<up, call, storeVars, watchVars, electionVars>>

\* etcd.py 52, 56-61: the endpoint answers; raise_for_status, the errorCode
\* test, or return.
Responds ==
    /\ rq.pc = "for"
    /\ rq.srv <= NumServers
    /\ up[rq.srv]
    /\ \E reply \in Replies :
         rq' = [rq EXCEPT !.pc = IF reply = "ok" THEN "returned" ELSE "raised",
                          !.tried = Append(@, [server |-> rq.srv,
                                               outcome |-> reply]),
                          !.attempts = Sat(@, MaxAttempts),
                          !.result = [server |-> rq.srv, reply |-> reply]]
    /\ UNCHANGED <<up, call, storeVars, watchVars, electionVars>>

\* etcd.py 62-69: the for loop ran out of servers; time.sleep(interval).
RoundFailed ==
    /\ rq.pc = "for"
    /\ rq.srv > NumServers
    /\ \E r \in RandomPermille :
         rq' = [rq EXCEPT !.pc = "sleep",
                          !.rounds = Sat(@, MaxRounds),
                          !.intervalMs = RetryIntervalMs(r)]
    /\ UNCHANGED <<up, call, storeVars, watchVars, electionVars>>

\* A mutant of SleepReturns: the next round resumes after the first server.
SleepReturnsSkipsFirst ==
    /\ rq.pc = "sleep"
    /\ rq' = [rq EXCEPT !.pc = "for", !.srv = 2, !.tried = <<>>]
    /\ UNCHANGED <<up, call, storeVars, watchVars, electionVars>>

\* etcd.py 69, 45-46: time.sleep returns; the next round starts at the first
\* server.
SleepReturns ==
    /\ rq.pc = "sleep"
    /\ rq' = [rq EXCEPT !.pc = "for", !.srv = 1, !.tried = <<>>]
    /\ UNCHANGED <<up, call, storeVars, watchVars, electionVars>>

\* The network: an endpoint becomes reachable or unreachable.  netChanged
\* records that this happened since the request started.
EndpointChanges ==
    /\ \E s \in Servers : up' = [up EXCEPT ![s] = ~@]
    /\ rq' = IF rq.pc # "idle" THEN [rq EXCEPT !.netChanged = TRUE] ELSE rq
    /\ UNCHANGED <<call, storeVars, watchVars, electionVars>>

RequestStep == ConnectFails \/ Responds \/ RoundFailed \/ SleepReturns

\* No Election exists.
InitIdleElection ==
    /\ green = TRUE
    /\ is_leader = [p \in Participants |-> FALSE]
    /\ watchdog = [p \in Participants |-> NoWatchdog]
    /\ tasks = [p \in Participants |-> <<>>]
    /\ obs = [p \in Participants |-> NoObs]

InitClient ==
    /\ up \in [Servers -> BOOLEAN]
    /\ call = NoCall
    /\ rq = IdleRequest
    /\ store = EmptyStore
    /\ wt = NoWatch
    /\ InitIdleElection

NextClient ==
    \/ CallSet
    \/ ConnectFails
    \/ Responds
    \/ RoundFailed
    \/ SleepReturns
    \/ EndpointChanges

SpecClient == InitClient /\ [][NextClient]_vars

\* time.sleep returns and requests.request ends (no timeout is passed, but a
\* connection attempt either fails or is answered): the request keeps stepping.
SpecClientFair == SpecClient /\ WF_vars(RequestStep)

-----------------------------------------------------------------------------
(* The store, as the client sees it over HTTP (etcd's v2 keys API): one key *)
(* with a value, a lease and a modification index, and the history of its   *)
(* changes that waiting GETs are answered from.                             *)

MaxStoreIndex == 4      \* the store accepts changes up to this index

\* The reply to a rejected request; errorCode 100 is "Key not found", 101
\* "Compare failed", 105 "Key already exists".
ErrorReply(code) == [ok |-> FALSE, errorCode |-> code, action |-> "",
                     modifiedIndex |-> 0, value |-> ""]
OkReply(action, node) == [ok |-> TRUE, errorCode |-> 0, action |-> action,
                          modifiedIndex |-> node.modifiedIndex,
                          value |-> node.value]

HasParam(params, k) == k \in DOMAIN params

\* The lease a write asks for: the ttl parameter, or none (-1).
LeaseOf(params) == IF HasParam(params, "ttl") THEN params["ttl"].i ELSE -1

\* A change of the key: the next index, the new node, the event recorded.
Changed(st, action, exists, value, lease) ==
    LET node == [exists |-> exists, value |-> value,
                 modifiedIndex |-> st.index + 1, ttl |-> lease]
    IN  [store |-> [node |-> node, index |-> st.index + 1,
                    history |-> Append(st.history,
                                  [action |-> action,
                                   modifiedIndex |-> st.index + 1,
                                   value |-> value])],
         reply |-> OkReply(action, node)]

Rejected(st, code) == [store |-> st, reply |-> ErrorReply(code)]

\* The precondition of a conditional write or delete fails with this error
\* code; 0 when it holds.
CompareError(st, params) ==
    IF ~st.node.exists THEN 100
    ELSE IF HasParam(params, "prevValue")
            /\ params["prevValue"].s # st.node.value THEN 101
    ELSE IF HasParam(params, "prevIndex")
            /\ params["prevIndex"].i # st.node.modifiedIndex THEN 101
    ELSE 0

\* PUT with the wire parameters `params`.
StorePut(st, params) ==
    IF HasParam(params, "prevExist") /\ params["prevExist"] = PyStr("false")
    THEN IF st.node.exists THEN Rejected(st, 105)
         ELSE Changed(st, "create", TRUE, params["value"].s, LeaseOf(params))
    ELSE IF HasParam(params, "prevExist") /\ params["prevExist"] = PyStr("true")
    THEN IF ~st.node.exists THEN Rejected(st, 100)
         ELSE Changed(st, "update", TRUE, params["value"].s, LeaseOf(params))
    ELSE IF HasParam(params, "prevValue") \/ HasParam(params, "prevIndex")
    THEN IF CompareError(st, params) # 0
         THEN Rejected(st, CompareError(st, params))
         ELSE Changed(st, "compareAndSwap", TRUE, params["value"].s,
                      LeaseOf(params))
    ELSE Changed(st, "set", TRUE, params["value"].s, LeaseOf(params))

\* DELETE with the wire parameters `params`.
StoreDelete(st, params) ==
    IF HasParam(params, "prevValue") \/ HasParam(params, "prevIndex")
    THEN IF CompareError(st, params) # 0
         THEN Rejected(st, CompareError(st, params))
         ELSE Changed(st, "compareAndDelete", FALSE, "", -1)
    ELSE IF ~st.node.exists THEN Rejected(st, 100)
    ELSE Changed(st, "delete", FALSE, "", -1)

\* The lease of the key ran out.
StoreExpired(st) == Changed(st, "expire", FALSE, "", -1).store

\* A GET that does not wait: the node, or "Key not found".
StoreRead(st) ==
    IF st.node.exists THEN OkReply("get", st.node) ELSE ErrorReply(100)

\* Whether a GET with these wire parameters waits for a change.
IsWaitingGet(params) ==
    HasParam(params, "wait") /\ params["wait"] = PyStr("true")

\* The first index a waiting GET is answered from: waitIndex, or without it
\* the first change after the request arrived.
WaitFrom(st, params) ==
    IF HasParam(params, "waitIndex") THEN params["waitIndex"].i
    ELSE st.index + 1

\* The changes a GET waiting from index `from` can be answered with, and the
\* one it is answered with: the earliest.
EventsFrom(st, from) ==
    {i \in 1..Len(st.history) : st.history[i].modifiedIndex >= from}
FirstEventFrom(st, from) ==
    LET i == CHOOSE i \in EventsFrom(st, from) :
                 \A j \in EventsFrom(st, from) : i <= j
        e == st.history[i]
    IN  [ok |-> TRUE, errorCode |-> 0, action |-> e.action,
         modifiedIndex |-> e.modifiedIndex, value |-> e.value]

StoreCanChange(st) == st.index < MaxStoreIndex

-----------------------------------------------------------------------------
(* Time.  One Tick is one unit (five seconds).  The store expires a lease   *)
(* when it runs out, and the eventlet hub runs a timer when it is due,      *)
(* unless a green thread of that process sits in a call that does not yield *)
(* to the hub: the module imports requests and time as they are, so         *)
(* requests.request and time.sleep yield only where the application has     *)
(* monkey-patched them (green).                                             *)

MaxRunners == 2         \* run() spawns at most this many green threads

BlockingPcs == {"acquire", "acquire_wait", "renew", "renew_wait",
                "watch", "watch_wait", "claim", "claim_wait"}

TaskSlots == 1..MaxRunners
TaskIds(p) == 1..Len(tasks[p])

HubBlocked(p) ==
    ~green /\ \E k \in TaskIds(p) : tasks[p][k].pc \in BlockingPcs

\* The hub of p can run something other than task k.
HubFreeFor(p, k) ==
    green \/ \A j \in TaskIds(p) \ {k} : tasks[p][j].pc \notin BlockingPcs

WatchdogDue(p) == watchdog[p].state = "pending" /\ watchdog[p].left = 0
SleepDue(p, k) == tasks[p][k].pc = "sleep" /\ tasks[p][k].sleepLeft = 0
LeaseDue == store.node.exists /\ store.node.ttl = 0

TimerDue(p) ==
    ~HubBlocked(p) /\ (WatchdogDue(p) \/ \E k \in TaskIds(p) : SleepDue(p, k))

Dec(n) == IF n > 0 THEN n - 1 ELSE n

\* The pcs of a renewal in flight: _renew's _write (election.py 98-99).
RenewPcs == {"renew", "renew_wait"}

Tick ==
    /\ ~LeaseDue
    /\ \A p \in Participants : ~TimerDue(p)
    /\ store' = [store EXCEPT !.node.ttl = Dec(@)]
    /\ watchdog' = [p \in Participants |->
                      [watchdog[p] EXCEPT !.left = Dec(@)]]
    /\ tasks' = [p \in Participants |->
                   [k \in TaskIds(p) |->
                      [tasks[p][k] EXCEPT
                         !.sleepLeft = Dec(@),
                         !.reqAge = IF tasks[p][k].pc \in RenewPcs
                                    THEN Sat(@, self_ttl) ELSE @]]]
    /\ obs' = [p \in Participants |->
                 [obs[p] EXCEPT !.age = IF obs[p].confirmed
                                        THEN Sat(@, self_ttl + 1) ELSE @]]
    /\ UNCHANGED <<clientVars, watchVars, green, is_leader>>

\* The store removes the key whose lease ran out.
LeaseExpires ==
    /\ LeaseDue
    /\ StoreCanChange(store)
    /\ store' = StoreExpired(store)
    /\ UNCHANGED <<clientVars, watchVars, electionVars>>

-----------------------------------------------------------------------------
(* Client.get and Client.watch_iter (etcd.py 71-81, 127-135), on a task     *)
(* record t.                                                                *)

\* etcd.py 133: self.get(path, wait=index) reaches the store.
GetArrives(t, st) ==
    LET wire == WireParams(ClientGet(t.index).params) IN
    IF IsWaitingGet(wire)
    THEN [t EXCEPT !.waiting = TRUE, !.from = WaitFrom(st, wire)]
    ELSE [t EXCEPT !.waiting = FALSE, !.resp = StoreRead(st)]

\* The store has an answer for the GET in flight, and the answer.
GetAnswerReady(t, st) == ~t.waiting \/ EventsFrom(st, t.from) # {}
GetAnswer(t, st) ==
    IF t.waiting THEN FirstEventFrom(st, t.from) ELSE t.resp

\* etcd.py 134: `yield result`.
Yield(t, result) ==
    [t EXCEPT !.yielded = result.modifiedIndex, !.resp = NoReply,
              !.waiting = FALSE, !.from = 0]

\* etcd.py 135, 132-133: the generator is resumed;
\* index = result['node']['modifiedIndex'] + 1 and the next get is issued.
Resume(t) == [t EXCEPT !.index = PyInt(t.yielded + 1), !.pc = "watch"]

-----------------------------------------------------------------------------
(* SpecWatch: one consumer of conn.watch_iter(path), `for event in ...`,    *)
(* while other clients change the key.                                      *)

\* The store's index when the watch starts.
InitialIndexes == {0, 1}

\* The leases other clients write with (-1: none).
ExternalLeases == {-1, 1}

Event(reply) == [action |-> reply.action, modifiedIndex |-> reply.modifiedIndex]

\* conn.watch_iter(path) is called and its first element asked for
\* (etcd.py 131-133).
WatchCall ==
    /\ wt.task.pc = "idle"
    /\ wt' = [wt EXCEPT !.task = [NewTask EXCEPT !.pc = "watch"],
                        !.absentAtStart = ~store.node.exists]
    /\ UNCHANGED <<clientVars, storeVars, electionVars>>

\* The GET of etcd.py 133 reaches the store.
WatchArrives ==
    /\ wt.task.pc = "watch"
    /\ wt' = [wt EXCEPT !.task = [GetArrives(wt.task, store)
                                    EXCEPT !.pc = "watch_wait"]]
    /\ UNCHANGED <<clientVars, storeVars, electionVars>>

\* The GET is answered: request returns the event, which watch_iter yields
\* (etcd.py 134), or raises (etcd.py 56, 60), which ends the generator.
WatchAnswered ==
    /\ wt.task.pc = "watch_wait"
    /\ GetAnswerReady(wt.task, store)
    /\ LET result == GetAnswer(wt.task, store) IN
       wt' = IF result.ok
             THEN [wt EXCEPT !.task = [Yield(wt.task, result)
                                         EXCEPT !.pc = "yield"],
                             !.got = Append(@, Event(result))]
             ELSE [wt EXCEPT !.task.pc = "raised"]
    /\ UNCHANGED <<clientVars, storeVars, electionVars>>

\* The consumer asks for the next element.
WatchNext ==
    /\ wt.task.pc = "yield"
    /\ wt' = [wt EXCEPT !.task = Resume(wt.task)]
    /\ UNCHANGED <<clientVars, storeVars, electionVars>>

\* Another client writes the key: conn.set(path, value, ttl=lease).
ExternalPut ==
    /\ StoreCanChange(store)
    /\ \E lease \in ExternalLeases :
         store' = StorePut(store,
                     WireParams(ClientSet(PyStr("x"), PyNone,
                        IF lease < 0 THEN PyNone ELSE PyInt(lease)).params)).store
    /\ UNCHANGED <<clientVars, watchVars, electionVars>>

\* Another client deletes the key: conn.set(path, None).
ExternalDelete ==
    /\ StoreCanChange(store)
    /\ store.node.exists
    /\ store' = StoreDelete(store,
                   WireParams(ClientSet(PyNone, PyNone, PyNone).params)).store
    /\ UNCHANGED <<clientVars, watchVars, electionVars>>

ExistingNode(i) == [exists |-> TRUE, value |-> "x", modifiedIndex |-> i, ttl |-> -1]

\* No client call is under way.
InitIdleClient ==
    /\ up = [s \in Servers |-> TRUE]
    /\ call = NoCall
    /\ rq = IdleRequest

InitWatch ==
    /\ InitIdleClient
    /\ InitIdleElection
    /\ wt = NoWatch
    /\ \E i \in InitialIndexes :
         \/ store = [EmptyStore EXCEPT !.index = i]
         \/ store = [EmptyStore EXCEPT !.index = i, !.node = ExistingNode(i)]

NextWatch ==
    \/ WatchCall
    \/ WatchArrives
    \/ WatchAnswered
    \/ WatchNext
    \/ ExternalPut
    \/ ExternalDelete
    \/ LeaseExpires
    \/ Tick

SpecWatch == InitWatch /\ [][NextWatch]_vars

-----------------------------------------------------------------------------
(* Election (election.py).  Each participant is a process of its own with   *)
(* its own hub; tasks[p][k] is the k-th green thread p.run() spawned.       *)

\* How a rejected request reaches request's caller: etcd answers it with an
\* HTTP error status (404, 412) and a JSON body holding errorCode, so
\* raise_for_status raises requests.HTTPError (etcd.py 56); an answer with a
\* success status and an errorCode body raises EtcdException (etcd.py 59-60).
ErrorForms == {"http_error", "error_code"}

SetTask(p, k, t) == [tasks EXCEPT ![p][k] = t]

\* The truth value of self._runner (election.py 61): None is false, and a
\* green thread (a greenlet) is true only while it is active, that is started
\* and not finished.
RunnerTruthy(p) ==
    /\ Len(tasks[p]) > 0
    /\ tasks[p][Len(tasks[p])].pc \notin {"spawned", "dead"}

\* A mutant of Run: run() sets is_leader before any write is made.
RunAssumesLeadership(p) ==
    /\ ~HubBlocked(p)
    /\ Len(tasks[p]) < MaxRunners
    /\ tasks' = IF ~RunnerTruthy(p)
                THEN [tasks EXCEPT ![p] = Append(@, NewTask)]
                ELSE tasks
    /\ is_leader' = [is_leader EXCEPT ![p] = TRUE]
    /\ UNCHANGED <<clientVars, storeVars, watchVars, green, watchdog, obs>>

\* Election.run (election.py 60-62), called by the application.
Run(p) ==
    /\ ~HubBlocked(p)
    /\ Len(tasks[p]) < MaxRunners
    /\ tasks' = IF ~RunnerTruthy(p)
                THEN [tasks EXCEPT ![p] = Append(@, NewTask)]
                ELSE tasks
    /\ UNCHANGED <<clientVars, storeVars, watchVars, green, is_leader,
                   watchdog, obs>>

\* election.cancel(): the class documents it (election.py 17-18) and defines
\* no such method, so the call raises AttributeError and changes nothing.
Cancel(p) ==
    /\ ~HubBlocked(p)
    /\ ~obs[p].cancelled
    /\ obs' = [obs EXCEPT ![p].cancelled = TRUE]
    /\ UNCHANGED <<clientVars, storeVars, watchVars, green, is_leader,
                   watchdog, tasks>>

\* A mutant of TaskStart: _run enters its loop without the first write.
TaskStartWatchesFirst(p, k) ==
    /\ k \in TaskIds(p)
    /\ tasks[p][k].pc = "spawned"
    /\ HubFreeFor(p, k)
    /\ tasks' = SetTask(p, k, [tasks[p][k] EXCEPT !.pc = "watch"])
    /\ UNCHANGED <<clientVars, storeVars, watchVars, green, is_leader,
                   watchdog, obs>>

\* The hub starts a spawned green thread: _run calls self._write(False)
\* (election.py 64-65).
TaskStart(p, k) ==
    /\ k \in TaskIds(p)
    /\ tasks[p][k].pc = "spawned"
    /\ HubFreeFor(p, k)
    /\ tasks' = SetTask(p, k, [tasks[p][k] EXCEPT !.pc = "acquire"])
    /\ UNCHANGED <<clientVars, storeVars, watchVars, green, is_leader,
                   watchdog, obs>>

\* Election._write (election.py 89-92): the prev_value of the write a task
\* at pc is making, and the parameters conn.set sends.
WriteOld(p, pc) == IF pc = "renew" THEN PyStr(p) ELSE PyFalse
WriteParams(p, pc) ==
    WireParams(ClientSet(PyStr(p), WriteOld(p, pc), PyInt(self_ttl)).params)

WaitPc(pc) ==
    CASE pc = "acquire" -> "acquire_wait"
      [] pc = "renew" -> "renew_wait"
      [] pc = "claim" -> "claim_wait"

\* The PUT of a _write reaches the store.  Until it does (endpoints
\* unreachable, the retry loop of Client.request) time passes.
WriteArrives(p, k) ==
    LET t == tasks[p][k]
        out == StorePut(store, WriteParams(p, t.pc))
    IN  /\ k \in TaskIds(p)
        /\ t.pc \in {"acquire", "renew", "claim"}
        /\ out.reply.ok => StoreCanChange(store)
        /\ store' = out.store
        /\ tasks' = SetTask(p, k, [t EXCEPT !.pc = WaitPc(t.pc),
                                            !.resp = out.reply])
        /\ UNCHANGED <<clientVars, watchVars, green, is_leader, watchdog, obs>>

\* A mutant of SetLeaderWatchdog: the watchdog is armed for interval.
SetLeaderWatchdogShort(value) ==
    IF value THEN [state |-> "pending", left |-> self_interval] ELSE NoWatchdog

\* Election._set_leader (election.py 79-87): the watchdog it leaves.
SetLeaderWatchdog(value) ==
    IF value THEN [state |-> "pending", left |-> self_ttl] ELSE NoWatchdog

\* election.py 67-72: the head of _run's loop, with is_leader as it is then.
LoopHead(t, leader) ==
    IF leader
    THEN [t EXCEPT !.pc = "sleep", !.sleepLeft = self_interval,
                   !.resp = NoReply, !.reqAge = 0]
    ELSE [NewTask EXCEPT !.pc = "watch"]

\* The write is answered and _write returns True or False, or the error
\* passes through _write, which catches EtcdException only (election.py
\* 91-96), and ends the green thread.  Then, by the place of the call:
\* election.py 65-66, 99-100 or 105-108.
WriteAnswered(p, k) ==
    LET t == tasks[p][k]
        success == t.resp.ok
        sets == success \/ t.pc = "renew_wait"
        leader == IF sets THEN success ELSE is_leader[p]
    IN  /\ k \in TaskIds(p)
        /\ t.pc \in {"acquire_wait", "renew_wait", "claim_wait"}
        /\ \E form \in (IF success THEN {"ok"} ELSE ErrorForms) :
             IF form = "http_error"
             THEN /\ tasks' = SetTask(p, k, [NewTask EXCEPT !.pc = "dead"])
                  /\ UNCHANGED <<is_leader, watchdog, obs>>
             ELSE /\ is_leader' = [is_leader EXCEPT ![p] = leader]
                  /\ watchdog' = IF sets
                                 THEN [watchdog EXCEPT
                                         ![p] = SetLeaderWatchdog(success)]
                                 ELSE watchdog
                  /\ obs' = IF success
                            THEN [obs EXCEPT ![p].confirmed = TRUE,
                                             ![p].age = 0]
                            ELSE obs
                  /\ tasks' = SetTask(p, k,
                                IF t.pc = "claim_wait" /\ ~success
                                THEN Resume([t EXCEPT !.resp = NoReply])
                                ELSE LoopHead(t, leader))
        /\ UNCHANGED <<clientVars, storeVars, watchVars, green>>

\* eventlet.sleep(self.interval) returns and _renew issues its write
\* (election.py 69-70, 98-99).
SleepEnds(p, k) ==
    /\ k \in TaskIds(p)
    /\ SleepDue(p, k)
    /\ HubFreeFor(p, k)
    /\ tasks' = SetTask(p, k, [tasks[p][k] EXCEPT !.pc = "renew"])
    /\ UNCHANGED <<clientVars, storeVars, watchVars, green, is_leader,
                   watchdog, obs>>

\* The GET of watch_iter, called by _try_become_leader, reaches the store
\* (election.py 103, etcd.py 133).
TaskWatchArrives(p, k) ==
    /\ k \in TaskIds(p)
    /\ tasks[p][k].pc = "watch"
    /\ tasks' = SetTask(p, k, [GetArrives(tasks[p][k], store)
                                 EXCEPT !.pc = "watch_wait"])
    /\ UNCHANGED <<clientVars, storeVars, watchVars, green, is_leader,
                   watchdog, obs>>

\* A mutant of TaskWatchAnswered: every event is answered with a claim.
TaskWatchAnsweredClaimsAlways(p, k) ==
    LET t == tasks[p][k]
        result == GetAnswer(t, store)
    IN  /\ k \in TaskIds(p)
        /\ t.pc = "watch_wait"
        /\ GetAnswerReady(t, store)
        /\ tasks' = SetTask(p, k,
                      IF ~result.ok THEN [NewTask EXCEPT !.pc = "dead"]
                      ELSE [Yield(t, result) EXCEPT !.pc = "claim"])
        /\ UNCHANGED <<clientVars, storeVars, watchVars, green, is_leader,
                       watchdog, obs>>

\* The GET is answered.  An error is raised through watch_iter,
\* _try_become_leader and _run, none of which catches it.  An event other
\* than delete or expire is skipped; on delete or expire _write(False) is
\* issued (election.py 103-105).
TaskWatchAnswered(p, k) ==
    LET t == tasks[p][k]
        result == GetAnswer(t, store)
    IN  /\ k \in TaskIds(p)
        /\ t.pc = "watch_wait"
        /\ GetAnswerReady(t, store)
        /\ tasks' = SetTask(p, k,
                      IF ~result.ok THEN [NewTask EXCEPT !.pc = "dead"]
                      ELSE IF result.action \notin {"delete", "expire"}
                      THEN Resume(Yield(t, result))
                      ELSE [Yield(t, result) EXCEPT !.pc = "claim"])
        /\ UNCHANGED <<clientVars, storeVars, watchVars, green, is_leader,
                       watchdog, obs>>

\* Election._on_watchdog (election.py 74-77), run by the hub when the timer
\* of spawn_after is due.  self._watchdog keeps the finished green thread.
WatchdogFires(p) ==
    /\ WatchdogDue(p)
    /\ ~HubBlocked(p)
    /\ is_leader' = [is_leader EXCEPT ![p] = FALSE]
    /\ watchdog' = [watchdog EXCEPT ![p] = [state |-> "fired", left |-> 0]]
    /\ UNCHANGED <<clientVars, storeVars, watchVars, green, tasks, obs>>

Init ==
    /\ InitIdleClient
    /\ wt = NoWatch
    /\ store = EmptyStore
    /\ green \in BOOLEAN
    /\ is_leader = [p \in Participants |-> FALSE]
    /\ watchdog = [p \in Participants |-> NoWatchdog]
    /\ tasks = [p \in Participants |-> <<>>]
    /\ obs = [p \in Participants |-> NoObs]

\* The application calls run() once on p.
RunOnce(p) == Len(tasks[p]) = 0 /\ Run(p)

\* Spec: the application of every participant calls run() once; the green
\* threads, the hubs, the store and time do the rest.
Next ==
    \/ \E p \in Participants : RunOnce(p)
    \/ \E p \in Participants, k \in TaskSlots : TaskStart(p, k)
    \/ \E p \in Participants, k \in TaskSlots : WriteArrives(p, k)
    \/ \E p \in Participants, k \in TaskSlots : WriteAnswered(p, k)
    \/ \E p \in Participants, k \in TaskSlots : SleepEnds(p, k)
    \/ \E p \in Participants, k \in TaskSlots : TaskWatchArrives(p, k)
    \/ \E p \in Participants, k \in TaskSlots : TaskWatchAnswered(p, k)
    \/ \E p \in Participants : WatchdogFires(p)
    \/ LeaseExpires
    \/ Tick

Spec == Init /\ [][Next]_vars

\* SpecRun: the application of one participant calls run() and cancel() at
\* any time, while other clients write and delete the lock key.
Solo == "a"

NextRun ==
    \/ Run(Solo)
    \/ Cancel(Solo)
    \/ \E p \in Participants, k \in TaskSlots : TaskStart(p, k)
    \/ \E p \in Participants, k \in TaskSlots : WriteArrives(p, k)
    \/ \E p \in Participants, k \in TaskSlots : WriteAnswered(p, k)
    \/ \E p \in Participants, k \in TaskSlots : SleepEnds(p, k)
    \/ \E p \in Participants, k \in TaskSlots : TaskWatchArrives(p, k)
    \/ \E p \in Participants, k \in TaskSlots : TaskWatchAnswered(p, k)
    \/ \E p \in Participants : WatchdogFires(p)
    \/ LeaseExpires
    \/ Tick
    \/ ExternalPut
    \/ ExternalDelete

SpecRun == Init /\ [][NextRun]_vars

\* SpecRace: as Spec, and other clients write the lock key, with or without
\* a lease, and delete it: the participants run while the lock is held by
\* someone else and follow it together.
NextRace ==
    \/ \E p \in Participants : RunOnce(p)
    \/ \E p \in Participants, k \in TaskSlots : TaskStart(p, k)
    \/ \E p \in Participants, k \in TaskSlots : WriteArrives(p, k)
    \/ \E p \in Participants, k \in TaskSlots : WriteAnswered(p, k)
    \/ \E p \in Participants, k \in TaskSlots : SleepEnds(p, k)
    \/ \E p \in Participants, k \in TaskSlots : TaskWatchArrives(p, k)
    \/ \E p \in Participants, k \in TaskSlots : TaskWatchAnswered(p, k)
    \/ \E p \in Participants : WatchdogFires(p)
    \/ LeaseExpires
    \/ Tick
    \/ ExternalPut
    \/ ExternalDelete

SpecRace == Init /\ [][NextRace]_vars

-----------------------------------------------------------------------------
(* Properties of Client.set and Client.request, checked under SpecClient    *)
(* and SpecClientFair.                                                      *)

RequestEnded == rq.pc \in {"returned", "raised"}
RequestActive == rq.pc \in {"for", "sleep"}
AllConnectionErrors(tried) ==
    \A i \in 1..Len(tried) : tried[i].outcome = "ConnectionError"

\* C8: set with value None together with a ttl, or together with prev_value
\* True or False, raises TypeError synchronously and no request is made to
\* any endpoint.
C8_DeleteContract ==
    (/\ call.made
     /\ call.value = PyNone
     /\ (call.ttl # PyNone \/ call.prev_value \in {PyTrue, PyFalse}))
    => (/\ call.raised = "TypeError"
        /\ rq.pc = "idle"
        /\ rq.attempts = 0)

C8_Witness ==
    /\ call.made
    /\ call.value = PyNone
    /\ call.ttl = PyNone
    /\ call.prev_value = PyTrue
    /\ call.raised = "TypeError"

\* C9: a connection failure never ends the request: a step taken while no
\* endpoint is reachable leaves it retrying, whatever the number of rounds
\* already failed; a request that ended was answered by an endpoint (its
\* response returned, or raised when it is an error answer); and when some
\* endpoint stays reachable from some point on, a request under way then
\* ends.
C9_RetriesUntilAnswered ==
    /\ [][(RequestActive /\ \A s \in Servers : ~up[s]) => RequestActive']_vars
    /\ [](RequestEnded =>
            /\ rq.result.server \in Servers
            /\ rq.result.reply \in Replies
            /\ (rq.pc = "returned") = (rq.result.reply = "ok")
            /\ rq.tried[Len(rq.tried)] =
                   [server |-> rq.result.server, outcome |-> rq.result.reply])
    /\ ((\E s \in Servers : <>[]up[s]) => (RequestActive ~> RequestEnded))

C9_Witness ==
    /\ rq.pc = "returned"
    /\ rq.rounds = MaxRounds
    /\ rq.result.server = NumServers

\* C10: within a round the endpoints are tried in the configured order from
\* the first one, endpoint k+1 only after endpoint k raised a connection
\* error; the request sleeps only after every endpoint of the round raised
\* one; so with the first endpoint down and the second up throughout, the
\* request ends with the second endpoint's answer without having slept.
C10_EndpointOrder ==
    /\ \A i \in 1..Len(rq.tried) : rq.tried[i].server = i
    /\ RequestActive => /\ AllConnectionErrors(rq.tried)
                        /\ rq.pc = "for" => rq.srv = Len(rq.tried) + 1
    /\ RequestEnded => AllConnectionErrors(SubSeq(rq.tried, 1, Len(rq.tried) - 1))
    /\ rq.pc = "sleep" => Len(rq.tried) = NumServers
    /\ rq.rounds > 0 => rq.intervalMs > 0
    /\ (rq.pc # "idle" /\ ~rq.netChanged /\ ~up[1] /\ up[2])
         => /\ rq.rounds = 0
            /\ rq.pc # "sleep"
            /\ RequestEnded => rq.result.server = 2

C10_Witness ==
    /\ rq.pc = "returned"
    /\ ~rq.netChanged
    /\ ~up[1]
    /\ rq.result.server = 2
    /\ rq.rounds = 0

\* What a reachable endpoint answers when it answers with an error.
ErrorReplies == Replies \ {"ok"}

\* C11: when a reachable endpoint answers with an error (an HTTP error
\* status, or a body holding errorCode), request raises at that step with
\* that endpoint's answer, and nothing follows: no further endpoint is
\* tried, no round is counted and no sleep is entered.
C11_ErrorRaisesImmediately ==
    [][/\ (/\ rq.pc = "for"
           /\ Len(rq'.tried) = Len(rq.tried) + 1
           /\ rq'.tried[Len(rq'.tried)].outcome \in ErrorReplies)
          => /\ rq'.pc = "raised"
             /\ rq'.result = [server |-> rq.srv,
                              reply |-> rq'.tried[Len(rq'.tried)].outcome]
             /\ rq'.rounds = rq.rounds
       /\ rq.pc = "raised"
          => /\ rq'.pc = "raised"
             /\ rq'.tried = rq.tried
             /\ rq'.attempts = rq.attempts
             /\ rq'.rounds = rq.rounds
             /\ rq'.result = rq.result]_vars

C11_Witness ==
    /\ rq.pc = "raised"
    /\ rq.result = [server |-> 1, reply |-> "error_code"]
    /\ Len(rq.tried) = 1
    /\ up[2]
    /\ ~rq.netChanged

\* The parameters of a conditional write (etcd.py 95-100).
CasKeys == {"prevExist", "prevValue", "prevIndex"}

\* C12: the request set makes carries at most one of prevExist, prevValue
\* and prevIndex, by the kind of prev_value: a bool gives prevExist, a string
\* gives prevValue with that string, an integer (0 and 1 included) gives
\* prevIndex with that integer, and None gives none of them.
C12_PrevValueKind ==
    (call.made /\ call.raised = "") =>
        LET sent == (DOMAIN rq.params) \cap CasKeys
            pv == call.prev_value
        IN  /\ Cardinality(sent) <= 1
            /\ pv.t = "bool" =>
                  /\ sent = {"prevExist"}
                  /\ rq.params["prevExist"] =
                         PyStr(IF pv = PyTrue THEN "true" ELSE "false")
            /\ pv.t = "str" =>
                  /\ sent = {"prevValue"}
                  /\ rq.params["prevValue"] = pv
            /\ pv.t = "int" =>
                  /\ sent = {"prevIndex"}
                  /\ rq.params["prevIndex"] = pv
            /\ pv = PyNone => sent = {}

-----------------------------------------------------------------------------
(* Properties of Client.watch_iter, checked under SpecWatch.                *)

CreationActions == {"create", "set"}

\* C6: watch_iter on a path that does not exist when it is called does not
\* fail: its first step blocks until the path is created, and the first
\* event it yields is that creation.
C6_WatchWaitsForCreation ==
    wt.absentAtStart =>
        /\ wt.task.pc # "raised"
        /\ wt.got # <<>> => wt.got[1].action \in CreationActions

\* C7: after yielding an event with modification index i, watch_iter yields
\* next the earliest change with an index greater than i: the indices
\* yielded increase strictly and no change of the key lies between two
\* consecutive ones.
C7_NoGapNoDuplicate ==
    \A k \in 1..(Len(wt.got) - 1) :
        /\ wt.got[k + 1].modifiedIndex > wt.got[k].modifiedIndex
        /\ \A e \in 1..Len(store.history) :
             ~(/\ store.history[e].modifiedIndex > wt.got[k].modifiedIndex
               /\ store.history[e].modifiedIndex < wt.got[k + 1].modifiedIndex)

-----------------------------------------------------------------------------
(* Properties of Election, checked under Spec and SpecRun.                  *)

Started(p) == {k \in TaskIds(p) : tasks[p][k].pc # "spawned"}
Running(p) == {k \in TaskIds(p) : tasks[p][k].pc \notin {"spawned", "dead"}}

\* C1: of the participants sharing the lock path, at most one has
\* is_leader = True in any state.
C1_AtMostOneLeader ==
    \A p, q \in Participants : (is_leader[p] /\ is_leader[q]) => p = q

\* C2: whenever is_leader is True, a write of the lock by this participant
\* was confirmed at most ttl ago.
C2_LeaderConfirmedWithinTtl ==
    \A p \in Participants :
        is_leader[p] => (obs[p].confirmed /\ obs[p].age <= self_ttl)

\* C3: once the leader has stopped renewing and its lease has expired, one
\* of the other participants that were run becomes leader.  A participant
\* whose green thread has ended never does, so, stated on states: when the
\* key of a leader p has expired, each other participant that was run and is
\* not leader still has its green thread.
C3_FollowerSurvivesExpiry ==
    \A p, q \in Participants :
        (/\ p # q
         /\ obs[p].confirmed
         /\ ~store.node.exists
         /\ store.history[Len(store.history)].action = "expire"
         /\ Started(q) # {}
         /\ ~is_leader[q])
        => Running(q) # {}

\* C4: whatever the sequence of run() calls on an Election, at most one
\* background task is ever started for it.
C4_RunStartsOneTask ==
    \A p \in Participants : Cardinality(Started(p)) <= 1

\* C5: after cancel() the participant has stopped trying to be leader: no
\* background task runs, is_leader is False and no watchdog is pending.
C5_CancelStops ==
    \A p \in Participants :
        obs[p].cancelled =>
            /\ Running(p) = {}
            /\ ~is_leader[p]
            /\ watchdog[p].state # "pending"

\* C13: losing leadership does not end the background task: a participant
\* that was confirmed leader and is not leader now (after a failed renewal or
\* after its watchdog fired), whatever the state of the lock key, still has
\* its green thread, following or completing the write it is making.
C13_LossNotTerminal ==
    \A p \in Participants :
        (obs[p].confirmed /\ ~is_leader[p]) => Running(p) # {}

\* C14: a renewal is a write conditional on the lock's value being the
\* participant's identifier: it is applied exactly when the key exists with
\* that value.  When it is answered with success the participant is leader
\* and its watchdog is due ttl after that answer; when it is answered with a
\* failure is_leader is False from that step on.
C14_RenewalOutcome ==
    [][\A p \in Participants, k \in TaskSlots :
         k \in TaskIds(p) =>
           /\ (tasks[p][k].pc = "renew" /\ tasks'[p][k].pc = "renew_wait")
              => (tasks'[p][k].resp.ok
                    <=> (store.node.exists /\ store.node.value = p))
           /\ (tasks[p][k].pc = "renew_wait" /\ tasks'[p][k].pc # "renew_wait")
              => IF tasks[p][k].resp.ok
                 THEN /\ is_leader'[p]
                      /\ watchdog'[p] = [state |-> "pending", left |-> self_ttl]
                 ELSE ~is_leader'[p]]_vars

\* The event a follower's claim in flight reacts to.
ClaimEvent(p, k) == tasks[p][k].yielded

\* Participant q, reacting to the event numbered e as well, has won the
\* lock that this event freed.
WonAfter(q, e) ==
    /\ \E j \in TaskIds(q) : tasks[q][j].yielded = e
    /\ store.node.exists
    /\ store.node.value = q
    /\ store.node.modifiedIndex = e + 1

\* C15: of the followers that react to one delete or expire event with a
\* must-not-exist write, one is accepted by the store; a follower whose
\* write was rejected because another follower won keeps is_leader False and
\* goes on with its watch sequence, from the event after the one it reacted
\* to.
C15_RaceLosersKeepWatching ==
    [][\A p \in Participants, k \in TaskSlots :
         k \in TaskIds(p) =>
           /\ (tasks[p][k].pc = "claim" /\ tasks'[p][k].pc = "claim_wait")
              => (tasks'[p][k].resp.ok <=> ~store.node.exists)
           /\ (/\ tasks[p][k].pc = "claim_wait"
               /\ tasks'[p][k].pc # "claim_wait"
               /\ ~tasks[p][k].resp.ok
               /\ \E q \in Participants \ {p} : WonAfter(q, ClaimEvent(p, k)))
              => /\ ~is_leader'[p]
                 /\ tasks'[p][k].pc = "watch"
                 /\ tasks'[p][k].index = PyInt(ClaimEvent(p, k) + 1)]_vars

\* The actions of the events that free the lock (election.py 104).
FreedActions == {"delete", "expire"}

\* C16: a follower starts an acquire write only at the step at which its
\* watch yields an event whose action is delete or expire; at an event with
\* any other action (a read of the key, a creation, an update, a renewal by
\* someone else) it writes nothing, is_leader and the watchdog stay as they
\* are, and it goes on watching.
C16_ClaimsOnlyWhenFreed ==
    [][\A p \in Participants, k \in TaskSlots :
         k \in TaskIds(p) =>
           /\ (tasks[p][k].pc # "claim" /\ tasks'[p][k].pc = "claim")
              => /\ tasks[p][k].pc = "watch_wait"
                 /\ GetAnswerReady(tasks[p][k], store)
                 /\ GetAnswer(tasks[p][k], store).action \in FreedActions
           /\ (/\ tasks[p][k].pc = "watch_wait"
               /\ tasks'[p][k].pc # "watch_wait"
               /\ GetAnswer(tasks[p][k], store).ok
               /\ GetAnswer(tasks[p][k], store).action \notin FreedActions)
              => /\ tasks'[p][k].pc = "watch"
                 /\ store' = store
                 /\ is_leader'[p] = is_leader[p]
                 /\ watchdog'[p] = watchdog[p]]_vars

C16_Witness ==
    \E p \in Participants :
        /\ ~is_leader[p]
        /\ Len(tasks[p]) = 1
        /\ tasks[p][1].pc = "watch"
        /\ tasks[p][1].yielded > 1
        /\ store.history[tasks[p][1].yielded].action = "compareAndSwap"
        /\ store.node.modifiedIndex > tasks[p][1].yielded

\* C17: a background task, once started, makes one must-not-exist write
\* before anything else: it goes from spawned to that write and nowhere
\* else, and enters it from nowhere else; the store applies the write exactly
\* when the key does not exist; and when it is answered with success the
\* participant is leader with the watchdog due in ttl, and sleeps before its
\* first renewal, without any watch having been made.
C17_InitialAcquire ==
    [][\A p \in Participants, k \in TaskSlots :
         k \in TaskIds(p) =>
           /\ (tasks[p][k].pc = "spawned" /\ tasks'[p][k].pc # "spawned")
              => /\ tasks'[p][k].pc = "acquire"
                 /\ WriteParams(p, "acquire")["prevExist"] = PyStr("false")
           /\ (tasks[p][k].pc # "acquire" /\ tasks'[p][k].pc = "acquire")
              => tasks[p][k].pc = "spawned"
           /\ (tasks[p][k].pc = "acquire" /\ tasks'[p][k].pc # "acquire")
              => /\ tasks'[p][k].pc = "acquire_wait"
                 /\ tasks'[p][k].resp.ok <=> ~store.node.exists
           /\ (/\ tasks[p][k].pc = "acquire_wait"
               /\ tasks'[p][k].pc # "acquire_wait"
               /\ tasks[p][k].resp.ok)
              => /\ is_leader'[p]
                 /\ watchdog'[p] = [state |-> "pending", left |-> self_ttl]
                 /\ tasks'[p][k].pc = "sleep"
                 /\ tasks'[p][k].index = PyFalse]_vars

C17_Witness ==
    \E p \in Participants :
        /\ is_leader[p]
        /\ Len(tasks[p]) = 1
        /\ tasks[p][1].pc = "sleep"
        /\ tasks[p][1].index = PyFalse
        /\ watchdog[p] = [state |-> "pending", left |-> self_ttl]
        /\ store.node.value = p
        /\ store.index = 1

\* The pcs at which a task waits for the answer to a write (_write).
WritePcs == {"acquire_wait", "renew_wait", "claim_wait"}

\* C18: is_leader is False as long as no background task has started.  It
\* changes from False to True only at the step at which a write of the lock
\* by this participant is answered with success, and from True to False
\* only at the step at which a renewal is answered with a failure or at the
\* step at which the pending watchdog, being due, fires.
C18_LeaderTransitions ==
    /\ [](\A p \in Participants : Started(p) = {} => ~is_leader[p])
    /\ [][\A p \in Participants :
            /\ (~is_leader[p] /\ is_leader'[p])
               => \E k \in TaskIds(p) :
                     /\ tasks[p][k].pc \in WritePcs
                     /\ tasks'[p][k].pc \notin WritePcs
                     /\ tasks[p][k].resp.ok
                     /\ \E e \in 1..Len(store.history) :
                          store.history[e].value = p
            /\ (is_leader[p] /\ ~is_leader'[p])
               => \/ \E k \in TaskIds(p) :
                        /\ tasks[p][k].pc = "renew_wait"
                        /\ tasks'[p][k].pc # "renew_wait"
                        /\ ~tasks[p][k].resp.ok
                  \/ /\ WatchdogDue(p)
                     /\ watchdog'[p].state = "fired"]_vars

C18_Witness ==
    /\ is_leader[Solo]
    /\ Len(store.history) = 4
    /\ store.history[1].value = Solo
    /\ store.history[2].value # Solo
    /\ store.history[3].action = "delete"
    /\ store.history[4].value = Solo
    /\ tasks[Solo][1].yielded = 3

\* The time left until ttl after p's last confirmed write.
TimeLeft(p) == IF obs[p].age < self_ttl THEN self_ttl - obs[p].age ELSE 0

\* C19: whenever is_leader is True the watchdog of the Election is pending
\* and due ttl after the most recent confirmed write; and from the step at
\* which a renewal is answered with a failure no watchdog is pending.
C19_OneWatchdog ==
    /\ [](\A p \in Participants :
            is_leader[p] => /\ watchdog[p].state = "pending"
                            /\ watchdog[p].left = TimeLeft(p))
    /\ [][\A p \in Participants, k \in TaskSlots :
            (/\ k \in TaskIds(p)
             /\ tasks[p][k].pc = "renew_wait"
             /\ tasks'[p][k].pc # "renew_wait"
             /\ ~tasks[p][k].resp.ok)
            => watchdog'[p].state # "pending"]_vars

\* A renewal of p has not completed in less than ttl - interval, or has been
\* rejected (its answer is a failure, or the task ended at it).
RenewalLateOrRejected(p) ==
    \E k \in TaskIds(p) :
        \/ /\ tasks[p][k].pc \in RenewPcs
           /\ tasks[p][k].reqAge >= self_ttl - self_interval
        \/ /\ tasks[p][k].pc = "renew_wait"
           /\ ~tasks[p][k].resp.ok
        \/ tasks[p][k].pc = "dead"

\* C20: with interval < ttl, a leader loses is_leader only when a renewal
\* was rejected or did not complete in less than ttl - interval: the
\* watchdog is not due before, and is_leader changes to False at no other
\* step.
C20_NoSpuriousLoss ==
    /\ [](self_interval < self_ttl)
    /\ [](\A p \in Participants :
            (is_leader[p] /\ WatchdogDue(p)) => RenewalLateOrRejected(p))
    /\ [][\A p \in Participants :
            (is_leader[p] /\ ~is_leader'[p]) => RenewalLateOrRejected(p)]_vars

C20_Witness ==
    \E p \in Participants :
        /\ is_leader[p]
        /\ watchdog[p] = [state |-> "pending", left |-> 1]
        /\ tasks[p][1].pc = "renew_wait"
        /\ tasks[p][1].reqAge = 1
        /\ tasks[p][1].resp.ok
        /\ Len(store.history) = 3
        /\ \A e \in 1..3 : store.history[e].value = p

=============================================================================
